---- MODULE Spec2Model ----
(***************************************************************************)
(* A model of src/main.py: the streaming chat client.                      *)
(*                                                                         *)
(*   - process_user_input / encode_image_to_base64: the content assembler  *)
(*     and the image resolver, as operators over character sequences;      *)
(*   - DashscopeClient._process_stream: the stream decoder, a generator    *)
(*     stepped one pull at a time;                                         *)
(*   - main: the session loop, one action per blocking step.               *)
(*                                                                         *)
(* Text is a sequence of one-character strings.  Python offsets are        *)
(* 0-based and are kept 0-based here (Slice); TLA+ sequences are 1-based.  *)
(***************************************************************************)
EXTENDS Integers, Sequences, FiniteSets, TLC

VARIABLES
    pc,                \* where the program is
    messages,          \* main: the conversation history
    user_input_lines,  \* main: the lines read for the current turn
    user_input,        \* main: the joined input / the assembler's text
    user_content,      \* the blocks process_user_input returned
    files,             \* what the file system answered for each image match
    full_response,     \* main: the text accumulated from the deltas
    lines,             \* response.iter_lines(): the raw lines of the stream
    nread,             \* how many of them the decoder has read
    gen,               \* the generator: "none", "open", "done", "raised",
                       \* "closed"
    events,            \* the events yielded so far (as indices into lines)
    log,               \* what was printed since the turn (or the run) began
    before,            \* history as it was when the current turn began
    sent,              \* the messages of the last completion request
    outcome,           \* how the last submitted turn ended
    turns,             \* inputs submitted so far
    failures,          \* transport failures so far
    eof                \* readline() calls answered by the end of input

vars == << pc, messages, user_input_lines, user_input, user_content,
           files, full_response, lines, nread, gen, events, log, before, sent,
           outcome, turns, failures, eof >>

(***************************************************************************)
(* Bounds of the model.                                                    *)
(***************************************************************************)
MaxPieces == 6         \* pieces an assembler input is built from
MaxStreamLines == 3    \* raw lines of a stream given to the decoder alone
MaxTurns == 3          \* inputs submitted in one session
MaxRefPieces == 3      \* pieces an image reference is built from
MaxEofReads == 2       \* readline() calls followed after the end of input

(***************************************************************************)
(* Strings.                                                                *)
(***************************************************************************)
\* Python's s[i:j] for 0 <= i, j <= len(s).
Slice(s, i, j) == SubSeq(s, i + 1, j)

\* Characters str.strip() / bytes.strip() remove.
Whitespace == {" ", "\n"}

RECURSIVE LStrip(_)
LStrip(s) ==
    IF s # << >> /\ Head(s) \in Whitespace THEN LStrip(Tail(s)) ELSE s

RECURSIVE RStrip(_)
RStrip(s) ==
    IF s # << >> /\ s[Len(s)] \in Whitespace
    THEN RStrip(SubSeq(s, 1, Len(s) - 1))
    ELSE s

Strip(s) == RStrip(LStrip(s))

StartsWith(s, p) == Len(s) >= Len(p) /\ SubSeq(s, 1, Len(p)) = p

RECURSIVE Flatten(_)
Flatten(ss) == IF ss = << >> THEN << >> ELSE Head(ss) \o Flatten(Tail(ss))

\* All sequences over S of length 0..n.
SeqsUpTo(S, n) == UNION { [1..k -> S] : k \in 0..n }

(***************************************************************************)
(* encode_image_to_base64                                                  *)
(***************************************************************************)
HttpPrefix == << "h", "t", "t", "p", ":", "/", "/" >>
HttpsPrefix == << "h", "t", "t", "p", "s", ":", "/", "/" >>
DataUriPrefix == << "data:image/jpeg;base64," >>

B64Alphabet ==
    << "A","B","C","D","E","F","G","H","I","J","K","L","M","N","O","P",
       "Q","R","S","T","U","V","W","X","Y","Z","a","b","c","d","e","f",
       "g","h","i","j","k","l","m","n","o","p","q","r","s","t","u","v",
       "w","x","y","z","0","1","2","3","4","5","6","7","8","9","+","/" >>

B64Char(n) == B64Alphabet[n + 1]

\* base64.b64encode over a sequence of bytes (0..255).
RECURSIVE b64encode(_)
b64encode(bs) ==
    IF Len(bs) = 0 THEN << >>
    ELSE IF Len(bs) = 1 THEN
        << B64Char(bs[1] \div 4), B64Char((bs[1] % 4) * 16), "=", "=" >>
    ELSE IF Len(bs) = 2 THEN
        << B64Char(bs[1] \div 4),
           B64Char((bs[1] % 4) * 16 + bs[2] \div 16),
           B64Char((bs[2] % 16) * 4), "=" >>
    ELSE
        << B64Char(bs[1] \div 4),
           B64Char((bs[1] % 4) * 16 + bs[2] \div 16),
           B64Char((bs[2] % 16) * 4 + bs[3] \div 64),
           B64Char(bs[3] % 64) >> \o b64encode(SubSeq(bs, 4, Len(bs)))

\* What the file system answers for one local path: the file is missing,
\* open/read raises, or the file is read with these bytes.
FileContents == { << >>, << 0 >> }
FileOutcomes ==
    { [kind |-> "notfound", bytes |-> << >>],
      [kind |-> "ioerror", bytes |-> << >>] }
    \cup { [kind |-> "ok", bytes |-> b] : b \in FileContents }

None == [none |-> TRUE, val |-> << >>]
Some(v) == [none |-> FALSE, val |-> v]

\* Python truthiness of an Optional[str].
Truthy(r) == ~r.none /\ r.val # << >>

encode_image_http_only(image_path, file) ==
    IF StartsWith(image_path, HttpPrefix)
    THEN Some(image_path)
    ELSE IF file.kind = "notfound" THEN None
    ELSE IF file.kind = "ioerror" THEN None
    ELSE Some(DataUriPrefix \o b64encode(file.bytes))

encode_image_to_base64(image_path, file) ==
    IF StartsWith(image_path, HttpPrefix) \/ StartsWith(image_path, HttpsPrefix)
    THEN Some(image_path)
    ELSE IF file.kind = "notfound" THEN None
    ELSE IF file.kind = "ioerror" THEN None
    ELSE Some(DataUriPrefix \o b64encode(file.bytes))

\* The calls encode_image_to_base64 makes on the file system.
FileCalls(image_path, file) ==
    IF StartsWith(image_path, HttpPrefix) \/ StartsWith(image_path, HttpsPrefix)
    THEN << >>
    ELSE IF file.kind = "notfound" THEN << "exists" >>
    ELSE << "exists", "open" >>

(***************************************************************************)
(* process_user_input                                                      *)
(***************************************************************************)
MarkerOpen == << "!", "[", "]", "(" >>

\* The 1-based index of the ")" closing a marker that starts at 0-based s:
\* the first ")" after at least one character of the group; 0 when none.
CloseIndex(text, s) ==
    LET cands == { e \in (s + 6)..Len(text) : text[e] = ")" }
    IN IF cands = {} THEN 0
       ELSE CHOOSE e \in cands : \A f \in cands : e <= f

\* re.match of  !\[\]\((.+?)\)  at 0-based offset s ("." matches no newline).
MatchesAt(text, s) ==
    /\ s + 6 <= Len(text)
    /\ SubSeq(text, s + 1, s + 4) = MarkerOpen
    /\ CloseIndex(text, s) # 0
    /\ \A i \in (s + 5)..(CloseIndex(text, s) - 1) : text[i] # "\n"

\* re.finditer: the matches from offset `from` on, leftmost first, not
\* overlapping; each [start, end, group], offsets as match.start()/end().
RECURSIVE FindIter(_, _)
FindIter(text, from) ==
    LET starts == { s \in from..Len(text) : MatchesAt(text, s) }
    IN IF starts = {} THEN << >>
       ELSE LET s == CHOOSE x \in starts : \A y \in starts : x <= y
                e == CloseIndex(text, s)
            IN << [start |-> s, end |-> e,
                   group |-> SubSeq(text, s + 5, e - 1)] >>
               \o FindIter(text, e)

TextBlock(t) == [type |-> "text", text |-> t]
ImageBlock(u) == [type |-> "image_url", url |-> u]

FailureNote(image_path) ==
    << "[Image processing failed for: " >> \o image_path \o << "]" >>

MatchBlocksDropFailed(text, last_end, m, file) ==
    LET text_before == Strip(Slice(text, last_end, m.start))
        image_path == Strip(m.group)
        image_url == encode_image_to_base64(image_path, file)
    IN (IF m.start > last_end /\ text_before # << >>
        THEN << TextBlock(text_before) >> ELSE << >>)
       \o (IF Truthy(image_url)
           THEN << ImageBlock(image_url.val) >>
           ELSE << TextBlock(<< "[Image processing failed]" >>) >>)

\* The body of the for loop for one match.
MatchBlocks(text, last_end, m, file) ==
    LET text_before == Strip(Slice(text, last_end, m.start))
        image_path == Strip(m.group)
        image_url == encode_image_to_base64(image_path, file)
    IN (IF m.start > last_end /\ text_before # << >>
        THEN << TextBlock(text_before) >> ELSE << >>)
       \o (IF Truthy(image_url)
           THEN << ImageBlock(image_url.val) >>
           ELSE << TextBlock(FailureNote(image_path)) >>)

RECURSIVE ForMatches(_, _, _, _, _)
ForMatches(text, ms, i, last_end, fs) ==
    IF i > Len(ms) THEN << >>
    ELSE MatchBlocks(text, last_end, ms[i], fs[i])
         \o ForMatches(text, ms, i + 1, ms[i].end, fs)

RemainingBlocksUntrimmed(text, last_end) ==
    LET remaining_text == Slice(text, last_end, Len(text))
    IN IF last_end < Len(text) /\ remaining_text # << >>
       THEN << TextBlock(remaining_text) >> ELSE << >>

RemainingBlocks(text, last_end) ==
    LET remaining_text == Strip(Slice(text, last_end, Len(text)))
    IN IF last_end < Len(text) /\ remaining_text # << >>
       THEN << TextBlock(remaining_text) >> ELSE << >>

process_user_input_no_fallback(text, fs) ==
    LET ms == FindIter(text, 0)
        last_end == IF ms = << >> THEN 0 ELSE ms[Len(ms)].end
    IN ForMatches(text, ms, 1, 0, fs) \o RemainingBlocks(text, last_end)

\* fs[i] is what the file system answers for the i-th match.
process_user_input(text, fs) ==
    LET ms == FindIter(text, 0)
        last_end == IF ms = << >> THEN 0 ELSE ms[Len(ms)].end
        content == ForMatches(text, ms, 1, 0, fs)
                   \o RemainingBlocks(text, last_end)
    IN IF content = << >> THEN << TextBlock(text) >> ELSE content

(***************************************************************************)
(* The assembler alone: process_user_input applied to every input built    *)
(* from at most MaxPieces pieces.                                          *)
(***************************************************************************)
Pieces == { << "a" >>, << " " >>, << "\n" >>, MarkerOpen, << ")" >> }

AssemblerInputs == { Flatten(ps) : ps \in SeqsUpTo(Pieces, MaxPieces) }

InitAssemble ==
    /\ pc = "text"
    /\ user_input \in AssemblerInputs
    /\ user_content = << >>
    /\ files = << >>
    /\ messages = << >> /\ user_input_lines = << >>
    /\ full_response = << >> /\ lines = << >> /\ nread = 0
    /\ gen = "none" /\ events = << >> /\ log = << >>
    /\ before = << >> /\ sent = << >> /\ outcome = "none"
    /\ turns = 0 /\ failures = 0 /\ eof = 0

Assemble ==
    /\ pc = "text"
    /\ \E fs \in [1..Len(FindIter(user_input, 0)) -> FileOutcomes] :
          /\ files' = fs
          /\ user_content' = process_user_input(user_input, fs)
    /\ pc' = "assembled"
    /\ UNCHANGED << messages, user_input_lines, user_input, full_response,
                    lines, nread, gen, events, log, before, sent, outcome,
                    turns, failures, eof >>

NextAssemble == Assemble

SpecAssemble == InitAssemble /\ [][NextAssemble]_vars

(***************************************************************************)
(* The resolver alone: encode_image_to_base64 applied to every reference   *)
(* built from at most MaxRefPieces pieces, applied again to its own        *)
(* result, and process_user_input applied to the marker of the reference.  *)
(***************************************************************************)
RefPieces == { HttpPrefix, HttpsPrefix, << "a" >>, << " " >> }

References == { Flatten(ps) : ps \in SeqsUpTo(RefPieces, MaxRefPieces) }

InitResolve ==
    /\ pc = "reference"
    /\ user_input \in References
    /\ user_content = << >>
    /\ files = << >>
    /\ messages = << >> /\ user_input_lines = << >>
    /\ full_response = << >> /\ lines = << >> /\ nread = 0
    /\ gen = "none" /\ events = << >> /\ log = << >>
    /\ before = << >> /\ sent = << >> /\ outcome = "none"
    /\ turns = 0 /\ failures = 0 /\ eof = 0

\* encode_image_to_base64(reference)
Resolve ==
    /\ pc = "reference"
    /\ \E f \in FileOutcomes :
          /\ files' = << f >>
          /\ user_content' = << encode_image_to_base64(user_input, f) >>
          /\ log' = FileCalls(user_input, f)
    /\ pc' = "resolved"
    /\ UNCHANGED << messages, user_input_lines, user_input, full_response,
                    lines, nread, gen, events, before, sent, outcome, turns,
                    failures, eof >>

\* encode_image_to_base64 applied to the string it returned.
ResolveAgain ==
    /\ pc = "resolved"
    /\ ~user_content[1].none
    /\ \E f \in FileOutcomes :
          /\ files' = Append(files, f)
          /\ user_content' =
                Append(user_content,
                       encode_image_to_base64(user_content[1].val, f))
          /\ log' = log \o FileCalls(user_content[1].val, f)
    /\ pc' = "resolved_again"
    /\ UNCHANGED << messages, user_input_lines, user_input, full_response,
                    lines, nread, gen, events, before, sent, outcome, turns,
                    failures, eof >>

\* process_user_input("![](reference)")
AssembleReference ==
    /\ pc = "reference"
    /\ user_input' = MarkerOpen \o user_input \o << ")" >>
    /\ \E fs \in [1..Len(FindIter(user_input', 0)) -> FileOutcomes] :
          /\ files' = fs
          /\ user_content' = process_user_input(user_input', fs)
    /\ pc' = "assembled"
    /\ UNCHANGED << messages, user_input_lines, full_response, lines, nread,
                    gen, events, log, before, sent, outcome, turns,
                    failures, eof >>

NextResolve == Resolve \/ ResolveAgain \/ AssembleReference

SpecResolve == InitResolve /\ [][NextResolve]_vars

(***************************************************************************)
(* DashscopeClient._process_stream                                         *)
(*                                                                         *)
(* A raw line is a sequence of bytes.  The bytes of the framing are single *)
(* characters; a complete JSON text is one element (a name of JsonDoc); *)
(* BadByte is a byte that is not valid UTF-8.                              *)
(***************************************************************************)
DataPrefix == << "d", "a", "t", "a", ":", " " >>
Sentinel == DataPrefix \o << "[", "D", "O", "N", "E", "]" >>
PrefixLen == 6
BadByte == "\\xff"

Delta(c) == [content |-> c, has_content |-> TRUE, is_null |-> FALSE]
NullDelta == [content |-> << >>, has_content |-> TRUE, is_null |-> TRUE]
NoDelta == [content |-> << >>, has_content |-> FALSE, is_null |-> FALSE]

\* A parsed JSON value: a number, or an object with optional "choices"
\* (a list whose first element may hold "delta") and optional "usage".
JsonObject(has_choices, n_choices, has_delta, delta, has_usage) ==
    [is_object |-> TRUE, has_choices |-> has_choices,
     n_choices |-> n_choices, has_delta |-> has_delta, delta |-> delta,
     has_usage |-> has_usage]
JsonNumber ==
    [is_object |-> FALSE, has_choices |-> FALSE, n_choices |-> 0,
     has_delta |-> FALSE, delta |-> NoDelta, has_usage |-> FALSE]

\* The JSON texts of the model and what json.loads returns for each.
JsonDoc ==
    [ j \in { "{He}", "{llo}", "{null}", "{usage}", "{!+usage}",
              "{choices:[{}]}", "5" } |->
        CASE j = "{He}" ->
               JsonObject(TRUE, 1, TRUE, Delta(<< "H", "e" >>), FALSE)
          [] j = "{llo}" ->
               JsonObject(TRUE, 1, TRUE, Delta(<< "l", "l", "o" >>), FALSE)
          [] j = "{null}" -> JsonObject(TRUE, 1, TRUE, NullDelta, FALSE)
          [] j = "{usage}" -> JsonObject(TRUE, 0, FALSE, NoDelta, TRUE)
          [] j = "{!+usage}" ->
               JsonObject(TRUE, 1, TRUE, Delta(<< "!" >>), TRUE)
          [] j = "{choices:[{}]}" ->
               JsonObject(TRUE, 1, FALSE, NoDelta, FALSE)
          [] j = "5" -> JsonNumber ]

\* bytes.decode('utf-8') raises UnicodeDecodeError.
DecodeRaises(bytes) == \E i \in 1..Len(bytes) : bytes[i] = BadByte

\* json.loads succeeds: one JSON text, whitespace around it allowed.
JsonLoadsOk(json_str) ==
    /\ Len(Strip(json_str)) = 1
    /\ Strip(json_str)[1] \in DOMAIN JsonDoc

json_loads(json_str) == JsonDoc[Strip(json_str)[1]]

IsSentinelNever(line) == FALSE

\* line.strip() == b'data: [DONE]'
IsSentinel(line) == Strip(line) = Sentinel

HasDataPrefix(line) == StartsWith(line, DataPrefix)

JsonStr(line) == Slice(line, PrefixLen, Len(line))

\* One resumption of the generator (a next() call) with n lines already
\* read: the loop runs until it yields, ends or raises.  errors are the
\* (1-based) lines whose JSONDecodeError was printed on the way.
RECURSIVE Resume(_, _, _)
Resume(ls, n, errors) ==
    IF n >= Len(ls)
    THEN [status |-> "done", nread |-> n, errors |-> errors]
    ELSE LET line == ls[n + 1] IN
         IF line = << >> THEN Resume(ls, n + 1, errors)
         ELSE IF IsSentinel(line)
         THEN [status |-> "done", nread |-> n + 1, errors |-> errors]
         ELSE IF HasDataPrefix(line) THEN
              IF DecodeRaises(JsonStr(line))
              THEN [status |-> "raised", nread |-> n + 1, errors |-> errors]
              ELSE IF JsonLoadsOk(JsonStr(line))
              THEN [status |-> "yield", nread |-> n + 1, errors |-> errors]
              ELSE Resume(ls, n + 1, Append(errors, n + 1))
         ELSE Resume(ls, n + 1, errors)

\* The chunk yielded from line i.
Chunk(ls, i) == json_loads(JsonStr(ls[i]))

(***************************************************************************)
(* The decoder alone: _process_stream over every stream of at most         *)
(* MaxStreamLines lines, pulled by a consumer that may stop at any time.   *)
(***************************************************************************)
DecoderLines ==
    { << >>,
      Sentinel,
      Sentinel \o << " " >>,
      << " " >> \o Sentinel,
      DataPrefix \o << "{He}" >>,
      DataPrefix \o << " ", "{llo}", " " >>,
      DataPrefix \o << "{" >>,
      DataPrefix \o << BadByte >>,
      << " " >> \o DataPrefix \o << "{He}" >>,
      << ":", " ", "p", "i", "n", "g" >> }

InitDecode ==
    /\ pc = "decode"
    /\ lines \in SeqsUpTo(DecoderLines, MaxStreamLines)
    /\ nread = 0 /\ gen = "open" /\ events = << >> /\ log = << >>
    /\ messages = << >> /\ user_input_lines = << >> /\ user_input = << >>
    /\ user_content = << >> /\ files = << >> /\ full_response = << >>
    /\ before = << >> /\ sent = << >> /\ outcome = "none"
    /\ turns = 0 /\ failures = 0 /\ eof = 0

PullPrefetch ==
    /\ pc = "decode" /\ gen = "open"
    /\ LET r == Resume(lines, nread, << >>) IN
        /\ nread' = IF r.status = "yield" /\ r.nread < Len(lines)
                     THEN r.nread + 1 ELSE r.nread
        /\ log' = log \o r.errors
        /\ gen' = IF r.status = "yield" THEN "open" ELSE r.status
        /\ events' = IF r.status = "yield" THEN Append(events, r.nread)
                     ELSE events
    /\ UNCHANGED << pc, messages, user_input_lines, user_input, user_content,
                    files, full_response, lines, before, sent, outcome,
                    turns, failures, eof >>

\* next(generator)
Pull ==
    /\ pc = "decode" /\ gen = "open"
    /\ LET r == Resume(lines, nread, << >>) IN
        /\ nread' = r.nread
        /\ log' = log \o r.errors
        /\ gen' = IF r.status = "yield" THEN "open" ELSE r.status
        /\ events' = IF r.status = "yield" THEN Append(events, r.nread)
                     ELSE events
    /\ UNCHANGED << pc, messages, user_input_lines, user_input, user_content,
                    files, full_response, lines, before, sent, outcome,
                    turns, failures, eof >>

\* The consumer stops iterating.
StopIterating ==
    /\ pc = "decode" /\ gen = "open"
    /\ gen' = "closed"
    /\ UNCHANGED << pc, messages, user_input_lines, user_input, user_content,
                    files, full_response, lines, nread, events, log, before,
                    sent, outcome, turns, failures, eof >>

NextDecode == Pull \/ StopIterating

SpecDecode == InitDecode /\ [][NextDecode]_vars

(***************************************************************************)
(* main: the session loop.  One action per blocking step: a readline, the  *)
(* completion request, one iteration of the loop over the stream.          *)
(***************************************************************************)
Message(role, content) == [role |-> role, content |-> content]

SystemMessage ==
    Message("system", << TextBlock(<< "You are a helpful assistant." >>) >>)

EndLine == << "<", "/", "e", "n", "d", ">" >>

\* "\n".join(ls)
RECURSIVE Join(_)
Join(ls) ==
    IF ls = << >> THEN << >>
    ELSE IF Len(ls) = 1 THEN ls[1]
    ELSE ls[1] \o << "\n" >> \o Join(Tail(ls))

\* What the user may type in one turn before the end line, and the streams
\* the server may answer with.
Script1 == << << " " >> >>
Script2 == << << "a" >>, MarkerOpen \o << "p", ")" >> >>
SessionScripts == { Script1, Script2 }
ScriptPrefixes ==
    UNION { { SubSeq(sc, 1, k) : k \in 0..Len(sc) } : sc \in SessionScripts }
SessionLines ==
    UNION { { sc[k] : k \in 1..Len(sc) } : sc \in SessionScripts }

\* What the session's file system may answer for the path "p".
SessionFileOutcomes ==
    { f \in FileOutcomes : f.kind = "ok" => f.bytes = << 0 >> }

Data(j) == DataPrefix \o << j >>

SessionStreams ==
    { << Data("{He}"), Data("{llo}"), Sentinel, Data("{He}") >>,
      << Data("{He}"), Data("{llo}") >>,
      << Data("{usage}"), Sentinel >>,
      << Data("{He}"), Data("{choices:[{}]}"), Data("{llo}") >>,
      << Data("{He}"), Data(BadByte), Sentinel >>,
      << Data("{"), Data("{!+usage}"), Sentinel >>,
      << Data("{null}"), Data("5"), Sentinel >> }

InitMain ==
    /\ pc = "read"
    /\ messages = << SystemMessage >>
    /\ user_input_lines = << >> /\ user_input = << >>
    /\ user_content = << >> /\ files = << >> /\ full_response = << >>
    /\ lines = << >> /\ nread = 0 /\ gen = "none" /\ events = << >>
    /\ log = << >> /\ before = << >> /\ sent = << >> /\ outcome = "none"
    /\ turns = 0 /\ failures = 0 /\ eof = 0

\* readline() returns a line other than the end line.
ReadLine ==
    /\ pc = "read"
    /\ eof = 0
    /\ \E line \in SessionLines :
          /\ line # EndLine
          /\ Append(user_input_lines, line) \in ScriptPrefixes
          /\ user_input_lines' = Append(user_input_lines, line)
    /\ UNCHANGED << pc, messages, user_input, user_content, files,
                    full_response, lines, nread, gen, events, log, before,
                    sent, outcome, turns, failures, eof >>

\* readline() at the end of input returns "": it is not the end line, so
\* it is appended like any other line and the loop reads again.
ReadEof ==
    /\ pc = "read"
    /\ eof < MaxEofReads
    /\ eof' = eof + 1
    /\ user_input_lines' = Append(user_input_lines, << >>)
    /\ UNCHANGED << pc, messages, user_input, user_content, files,
                    full_response, lines, nread, gen, events, log, before,
                    sent, outcome, turns, failures >>

\* KeyboardInterrupt inside readline(): main returns.
ReadInterrupt ==
    /\ pc = "read"
    /\ pc' = "exited"
    /\ UNCHANGED << messages, user_input_lines, user_input, user_content,
                    files, full_response, lines, nread, gen, events, log,
                    before, sent, outcome, turns, failures, eof >>

IsBlankOnlyEmpty(text) == text = << >>

\* not user_input.strip()
IsBlank(text) == Strip(text) = << >>

\* readline() returns the end line: the input is joined and, unless it is
\* blank, assembled and appended; the next iteration starts with no lines.
ReadEnd ==
    /\ pc = "read"
    /\ eof = 0
    /\ turns < MaxTurns
    /\ turns' = turns + 1
    /\ before' = messages
    /\ log' = << >>
    /\ user_input' = Join(user_input_lines)
    /\ IF IsBlank(user_input')
       THEN /\ pc' = "read"
            /\ user_input_lines' = << >>
            /\ outcome' = "skipped"
            /\ UNCHANGED << messages, user_content, files >>
       ELSE /\ \E fs \in [1..Len(FindIter(user_input', 0))
                          -> SessionFileOutcomes] :
                  /\ files' = fs
                  /\ user_content' = process_user_input(user_input', fs)
            /\ messages' = Append(messages, Message("user", user_content'))
            /\ pc' = "request"
            /\ outcome' = "pending"
            /\ UNCHANGED user_input_lines
    /\ UNCHANGED << full_response, lines, nread, gen, events, sent, failures,
                    eof >>

\* Back at the top of the while loop after a turn.
TurnEnds(how) ==
    /\ pc' = "read"
    /\ user_input_lines' = << >>
    /\ outcome' = how

\* The loop over the stream is left: the generator and its frame are gone.
GeneratorGone ==
    /\ gen' = "none"
    /\ lines' = << >>
    /\ nread' = 0

RequestFailsAndExits ==
    /\ pc = "request"
    /\ full_response' = << >>
    /\ sent' = messages
    /\ failures' = failures + 1
    /\ log' = Append(log, "error")
    /\ pc' = "crashed" /\ outcome' = "transport_error"
    /\ UNCHANGED << messages, user_input_lines, user_input, user_content,
                    files, lines, nread, gen, events, before, turns, eof >>

\* chat_completions_create raises (requests.post raises, or the status is
\* not 200); main's except clause prints the error.
RequestFails ==
    /\ pc = "request"
    /\ full_response' = << >>
    /\ sent' = messages
    /\ failures' = failures + 1
    /\ log' = Append(log, "error")
    /\ TurnEnds("transport_error")
    /\ UNCHANGED << messages, user_input, user_content, files, lines, nread,
                    gen, events, before, turns, eof >>

RequestReturnsStale ==
    /\ pc = "request"
    /\ full_response' = << >>
    /\ sent' = before
    /\ lines' \in SessionStreams
    /\ nread' = 0
    /\ gen' = "open"
    /\ pc' = "stream"
    /\ UNCHANGED << messages, user_input_lines, user_input, user_content,
                    files, events, log, before, outcome, turns, failures,
                    eof >>

\* chat_completions_create returns the generator over the response.
RequestReturns ==
    /\ pc = "request"
    /\ full_response' = << >>
    /\ sent' = messages
    /\ lines' \in SessionStreams
    /\ nread' = 0
    /\ gen' = "open"
    /\ pc' = "stream"
    /\ UNCHANGED << messages, user_input_lines, user_input, user_content,
                    files, events, log, before, outcome, turns, failures,
                    eof >>

\* The body of the for loop raises on this chunk.
BodyRaises(chunk) ==
    \/ ~chunk.is_object
    \/ chunk.has_choices /\ chunk.n_choices > 0 /\ ~chunk.has_delta

HasDelta(chunk) ==
    /\ chunk.is_object /\ chunk.has_choices /\ chunk.n_choices > 0
    /\ chunk.has_delta /\ chunk.delta.has_content /\ ~chunk.delta.is_null

AccumulatePrepend(response, chunk) ==
    IF HasDelta(chunk) THEN chunk.delta.content \o response ELSE response

\* full_response after the body ran on this chunk.
Accumulate(response, chunk) ==
    IF HasDelta(chunk) THEN response \o chunk.delta.content ELSE response

\* What the body prints for this chunk.
BodyPrints(chunk) ==
    IF chunk.has_choices /\ chunk.n_choices > 0
    THEN IF HasDelta(chunk) THEN << "delta" >> ELSE << >>
    ELSE IF chunk.has_usage THEN << "usage" >> ELSE << >>

JsonErrors(r) == [i \in 1..Len(r.errors) |-> "json_error"]

\* One iteration of the loop over the stream: the generator yields a chunk
\* and the body handles it.
ConsumeChunk ==
    /\ pc = "stream"
    /\ LET r == Resume(lines, nread, << >>) IN
        /\ r.status = "yield"
        /\ ~BodyRaises(Chunk(lines, r.nread))
        /\ nread' = r.nread
        /\ full_response' = Accumulate(full_response, Chunk(lines, r.nread))
        /\ log' = log \o JsonErrors(r) \o BodyPrints(Chunk(lines, r.nread))
    /\ UNCHANGED << pc, messages, user_input_lines, user_input, user_content,
                    files, lines, gen, events, before, sent, outcome, turns,
                    failures, eof >>

\* The generator raises, or the body raises on the chunk it yielded; main's
\* except clause prints the error.
ConsumeRaises ==
    /\ pc = "stream"
    /\ LET r == Resume(lines, nread, << >>) IN
        /\ \/ r.status = "raised"
           \/ r.status = "yield" /\ BodyRaises(Chunk(lines, r.nread))
        /\ log' = log \o JsonErrors(r) \o << "error" >>
        /\ TurnEnds(IF r.status = "raised" THEN "decode_error"
                    ELSE "event_error")
    /\ GeneratorGone
    /\ UNCHANGED << messages, user_input, user_content, files, full_response,
                    events, before, sent, turns, failures, eof >>

\* iter_lines() raises while the stream is read (the connection drops).
StreamBreaks ==
    /\ pc = "stream"
    /\ log' = Append(log, "error")
    /\ GeneratorGone
    /\ TurnEnds("stream_error")
    /\ UNCHANGED << messages, user_input, user_content, files, full_response,
                    events, before, sent, turns, failures, eof >>

StreamEndsReplacesLast ==
    /\ pc = "stream"
    /\ LET r == Resume(lines, nread, << >>) IN
        /\ r.status = "done"
        /\ log' = log \o JsonErrors(r)
    /\ messages' =
          IF full_response # << >>
          THEN Append(SubSeq(messages, 1, Len(messages) - 1),
                      Message("assistant", << TextBlock(full_response) >>))
          ELSE messages
    /\ GeneratorGone
    /\ TurnEnds("completed")
    /\ UNCHANGED << user_input, user_content, files, full_response, events,
                    before, sent, turns, failures, eof >>

\* The generator ends: the response, if any, is appended to the history.
StreamEnds ==
    /\ pc = "stream"
    /\ LET r == Resume(lines, nread, << >>) IN
        /\ r.status = "done"
        /\ log' = log \o JsonErrors(r)
    /\ messages' =
          IF full_response # << >>
          THEN Append(messages,
                      Message("assistant", << TextBlock(full_response) >>))
          ELSE messages
    /\ GeneratorGone
    /\ TurnEnds("completed")
    /\ UNCHANGED << user_input, user_content, files, full_response, events,
                    before, sent, turns, failures, eof >>

\* KeyboardInterrupt during the request or the stream: not an Exception,
\* so it leaves main.
Interrupt ==
    /\ pc \in { "request", "stream" }
    /\ pc' = "crashed"
    /\ UNCHANGED << messages, user_input_lines, user_input, user_content,
                    files, full_response, lines, nread, gen, events, log,
                    before, sent, outcome, turns, failures, eof >>

Next ==
    \/ ReadLine \/ ReadEof \/ ReadInterrupt \/ ReadEnd
    \/ RequestFails \/ RequestReturns
    \/ ConsumeChunk \/ ConsumeRaises \/ StreamBreaks \/ StreamEnds
    \/ Interrupt

Spec == InitMain /\ [][Next]_vars

(***************************************************************************)
(* Properties of the assembler (SpecAssemble).                             *)
(***************************************************************************)
Markers == FindIter(user_input, 0)

NoMarker(text) == \A s \in 0..Len(text) : ~MatchesAt(text, s)

\* The text between marker j and marker j + 1 (j = 0: before the first,
\* j = Len(Markers): after the last).
Segment(j) ==
    Slice(user_input,
          IF j = 0 THEN 0 ELSE Markers[j].end,
          IF j = Len(Markers) THEN Len(user_input) ELSE Markers[j + 1].start)

Trimmed(j) == Strip(Segment(j))

\* How many of the segments 0..j-1 are non-empty after trimming.
KeptBefore(j) == Cardinality({ i \in 0..(j - 1) : Trimmed(i) # << >> })

\* Where the block of marker i and the block of segment j must be.
MarkerAt(i) == i + KeptBefore(i)
SegmentAt(j) == j + KeptBefore(j) + 1

IsMarkerBlock(b, i) ==
    \/ b.type = "image_url"
    \/ b.type = "text" /\ b.text = FailureNote(Strip(Markers[i].group))

\* C7: a non-empty input without image marker is returned as exactly one
\* Text block holding the input unchanged, not trimmed.
C7_PlainTextIsOneUntrimmedBlock ==
    (pc = "assembled" /\ user_input # << >> /\ NoMarker(user_input))
        => user_content = << TextBlock(user_input) >>

\* C8: with k >= 1 markers the blocks are, in source order, one block per
\* marker and one Text block per segment that is non-empty after trimming,
\* holding the trimmed segment; no Text block is empty.
C8_BlocksInSourceOrder ==
    (pc = "assembled" /\ Len(Markers) >= 1) =>
        /\ Len(user_content) = Len(Markers) + KeptBefore(Len(Markers) + 1)
        /\ \A i \in 1..Len(Markers) :
              IsMarkerBlock(user_content[MarkerAt(i)], i)
        /\ \A j \in 0..Len(Markers) :
              Trimmed(j) # << >> =>
                  user_content[SegmentAt(j)] = TextBlock(Trimmed(j))
        /\ \A n \in 1..Len(user_content) :
              user_content[n].type = "text" => user_content[n].text # << >>

\* One marker, resolved, between a segment that is kept trimmed and a
\* whitespace-only segment that is dropped.
C8_Witness ==
    /\ pc = "assembled" /\ Len(Markers) = 1
    /\ Trimmed(0) # << >> /\ Trimmed(0) # Segment(0)
    /\ Segment(1) # << >> /\ Trimmed(1) = << >>
    /\ user_content = << TextBlock(Trimmed(0)), user_content[2] >>
    /\ user_content[2].type = "image_url"

\* C10: the blocks returned for a non-empty input are never empty.
C10_NonEmptyResult ==
    (pc = "assembled" /\ user_input # << >>) => user_content # << >>

\* A whitespace-only input: every trimmed part is empty, one block remains.
C10_Witness ==
    /\ pc = "assembled" /\ user_input # << >> /\ Strip(user_input) = << >>
    /\ user_content = << TextBlock(user_input) >>

(***************************************************************************)
(* Properties of the decoder (SpecDecode).                                 *)
(***************************************************************************)
\* The first line equal to the sentinel; 0 when there is none.
FirstSentinel(ls) ==
    LET at == { i \in 1..Len(ls) : ls[i] = Sentinel }
    IN IF at = {} THEN 0 ELSE CHOOSE i \in at : \A j \in at : i <= j

\* C4: once a line equal to the sentinel is read, no further line is read
\* and no further event is yielded: every event comes from a line before
\* the first sentinel line.
C4_NothingAfterSentinel ==
    (pc = "decode" /\ FirstSentinel(lines) # 0) =>
        /\ nread <= FirstSentinel(lines)
        /\ \A n \in 1..Len(events) : events[n] < FirstSentinel(lines)

\* The decoder ended at a sentinel that a valid data line follows, after
\* yielding an event.
C4_Witness ==
    /\ pc = "decode" /\ gen = "done" /\ events # << >>
    /\ FirstSentinel(lines) # 0
    /\ nread = FirstSentinel(lines)
    /\ nread < Len(lines)
    /\ HasDataPrefix(lines[nread + 1])
    /\ ~DecodeRaises(JsonStr(lines[nread + 1]))
    /\ JsonLoadsOk(JsonStr(lines[nread + 1]))

\* C5: the decoder never raises to its consumer; a data line whose payload
\* cannot be decoded or parsed yields no event and is only reported.
C5_DecoderNeverRaises ==
    pc = "decode" =>
        /\ gen # "raised"
        /\ \A n \in 1..Len(events) :
              /\ ~DecodeRaises(JsonStr(lines[events[n]]))
              /\ JsonLoadsOk(JsonStr(lines[events[n]]))

(***************************************************************************)
(* Properties of the session (Spec).                                       *)
(***************************************************************************)
UserMessage == Message("user", user_content)
AssistantMessage(t) == Message("assistant", << TextBlock(t) >>)

\* C1: after a turn whose transport call failed, the history is what it
\* was before the turn began.
C1_HistoryUnchangedAfterTransportFailure ==
    outcome = "transport_error" => messages = before

\* The content delta a raw line delivers (empty when it delivers none).
DeltaOf(line) ==
    IF /\ HasDataPrefix(line)
       /\ ~DecodeRaises(JsonStr(line))
       /\ JsonLoadsOk(JsonStr(line))
       /\ HasDelta(json_loads(JsonStr(line)))
    THEN json_loads(JsonStr(line)).delta.content
    ELSE << >>

\* The deltas of the lines before the first sentinel line, concatenated in
\* arrival order.
RECURSIVE Delivered(_)
Delivered(ls) ==
    IF ls = << >> \/ Head(ls) = Sentinel THEN << >>
    ELSE DeltaOf(Head(ls)) \o Delivered(Tail(ls))

\* C2: when the stream of a turn completes, the history gains exactly one
\* assistant message holding the concatenation of the deltas in arrival
\* order if that is non-empty, and no assistant message otherwise.
C2_CommitOnCompletion ==
    [][(pc = "stream" /\ outcome' = "completed") =>
          messages' = Append(before, UserMessage)
                      \o (IF Delivered(lines) # << >>
                          THEN << AssistantMessage(Delivered(lines)) >>
                          ELSE << >>)]_vars

\* A turn completed after the deltas "He" and "llo".
C2_Witness ==
    /\ outcome = "completed"
    /\ messages[Len(messages)]
          = AssistantMessage(<< "H", "e", "l", "l", "o" >>)

\* C3: a turn aborted while the stream is consumed leaves the history as it
\* was before the turn began.
C3_HistoryUnchangedAfterAbort ==
    outcome \in { "stream_error", "decode_error", "event_error" }
        => messages = before

\* C6: a transport failure returns the session to reading the next turn and
\* never ends it, however many failures came before; a turn that completes
\* afterwards commits its response.
C6_SessionSurvivesTransportFailures ==
    [][/\ failures' > failures =>
            /\ pc' = "read" /\ user_input_lines' = << >>
            /\ messages' = messages
       /\ (failures > 0 /\ pc = "stream" /\ outcome' = "completed"
             /\ full_response # << >>) =>
            messages' = Append(messages, AssistantMessage(full_response))
      ]_vars

\* Two failed turns in a row, then a turn that committed a response.
C6_Witness ==
    /\ failures = 2 /\ turns = 3 /\ outcome = "completed"
    /\ Len(messages) = 5
    /\ messages[5].role = "assistant"

Failed(i) == files[i].kind \in { "notfound", "ioerror" }

\* s occurs in t as a run of consecutive elements.
Contains(t, s) ==
    \E k \in 0..(Len(t) - Len(s)) : SubSeq(t, k + 1, k + Len(s)) = s

\* C9: a marker whose reference fails to resolve gives a Text block that
\* contains the reference and no Image block, and the turn proceeds: the
\* user message is appended and the completion is requested (it is about
\* to be, or the messages sent hold it, or the user interrupted the call).
C9_FailedImageDegradesToText ==
    \A i \in 1..Len(Markers) :
        (outcome # "none" /\ Failed(i)) =>
            /\ user_content[MarkerAt(i)].type = "text"
            /\ Contains(user_content[MarkerAt(i)].text,
                        Strip(Markers[i].group))
            /\ Len(user_content) = Len(Markers) + KeptBefore(Len(Markers) + 1)
            /\ Len(messages) > Len(before)
            /\ messages[Len(before) + 1] = UserMessage
            /\ \/ pc = "request"
               \/ sent = Append(before, UserMessage)
               \/ pc = "crashed" /\ outcome = "pending"

\* The completion was requested with the note of a failed image.
C9_Witness ==
    /\ pc = "stream" /\ Len(Markers) = 1 /\ Failed(1)
    /\ sent[Len(sent)].role = "user"
    /\ sent[Len(sent)].content[MarkerAt(1)]
          = TextBlock(FailureNote(<< "p" >>))

(***************************************************************************)
(* Properties of the resolver (SpecResolve).                               *)
(***************************************************************************)
Remote(ref) ==
    \/ Len(ref) >= 7 /\ SubSeq(ref, 1, 7) = << "h", "t", "t", "p", ":", "/", "/" >>
    \/ Len(ref) >= 8
       /\ SubSeq(ref, 1, 8) = << "h", "t", "t", "p", "s", ":", "/", "/" >>

\* C11: a reference that starts with http:// or https:// is returned
\* unchanged without any file access, resolving the result again returns
\* the identical string, and its marker becomes an Image block with it.
C11_RemotePassThrough ==
    /\ (pc \in { "resolved", "resolved_again" } /\ Remote(user_input)) =>
          /\ \A k \in 1..Len(user_content) : user_content[k] = Some(user_input)
          /\ log = << >>
    /\ pc = "assembled" =>
          \A i \in 1..Len(Markers) :
              Remote(Strip(Markers[i].group)) =>
                  user_content[MarkerAt(i)]
                      = ImageBlock(Strip(Markers[i].group))

\* An https reference resolved twice while the file system would have
\* answered that no such file exists.
C11_Witness ==
    /\ pc = "resolved_again"
    /\ Remote(user_input)
    /\ user_input[5] = "s"
    /\ files[1].kind = "notfound" /\ files[2].kind = "ioerror"
    /\ user_content = << Some(user_input), Some(user_input) >>

(***************************************************************************)
(* Further properties of the session (Spec).                               *)
(***************************************************************************)
\* C12: when the submitted input is empty or only whitespace the turn is
\* skipped: the history is unchanged, no request is issued and the loop
\* reads the next input.
C12_BlankInputIsSkipped ==
    [][(turns' = turns + 1 /\ Strip(Join(user_input_lines)) = << >>) =>
          /\ messages' = messages
          /\ sent' = sent
          /\ pc' = "read"]_vars

\* A whitespace-only input was skipped after an earlier turn had completed
\* with a response.
C12_Witness ==
    /\ outcome = "skipped"
    /\ user_input = << " " >>
    /\ Len(messages) = 3
    /\ messages = before

\* C13: the history starts with the one system message and the messages
\* after it alternate user, assistant, user, assistant, ...
C13_RolesAlternate ==
    /\ messages[1].role = "system"
    /\ \A i \in 2..Len(messages) :
          messages[i].role = IF i % 2 = 0 THEN "user" ELSE "assistant"

\* C14: every step leaves the history unchanged or appends exactly one
\* message to it: the history before a step is a prefix of the history
\* after it.
C14_HistoryAppendOnly ==
    [][\/ messages' = messages
       \/ /\ Len(messages') = Len(messages) + 1
          /\ SubSeq(messages', 1, Len(messages)) = messages]_vars

\* A second turn committed its response behind the two messages of the
\* first.
C14_Witness ==
    /\ outcome = "completed"
    /\ Len(messages) = 5
    /\ messages[3].role = "assistant"
    /\ messages[5].role = "assistant"
    /\ Len(before) = 3

\* C15: no decoded event aborts the turn.
C15_NoEventAbortsTheTurn == outcome # "event_error"

\* The usage reports of the events that the lines deliver, one per event
\* that carries usage.
RECURSIVE UsageEvents(_)
UsageEvents(ls) ==
    IF ls = << >> \/ Head(ls) = Sentinel THEN << >>
    ELSE (IF /\ HasDataPrefix(Head(ls))
             /\ ~DecodeRaises(JsonStr(Head(ls)))
             /\ JsonLoadsOk(JsonStr(Head(ls)))
             /\ json_loads(JsonStr(Head(ls))).has_usage
          THEN << "usage" >> ELSE << >>) \o UsageEvents(Tail(ls))

IsUsage(entry) == entry = "usage"

\* C17: while a stream is consumed, one usage report has been emitted for
\* every consumed event that carries usage, whether or not it also carries
\* a delta, and the accumulated text is the consumed deltas, whether or not
\* their events also carry usage.
C17_UsageAndDeltaIndependent ==
    pc = "stream" =>
        /\ SelectSeq(log, IsUsage) = UsageEvents(SubSeq(lines, 1, nread))
        /\ full_response = Delivered(SubSeq(lines, 1, nread))

\* C19: the messages of every completion request are the history before
\* the turn followed by the user message assembled from the turn's input:
\* the system message is first, the last message is that user message and
\* its content list is not empty.
C19_RequestCarriesHistory ==
    [][(pc = "request" /\ pc' \in { "stream", "read" }) =>
          /\ sent' = Append(before,
                            Message("user",
                                    process_user_input(user_input, files)))
          /\ sent'[1] = SystemMessage
          /\ sent'[Len(sent')].role = "user"
          /\ sent'[Len(sent')].content # << >>]_vars

\* The request of a second turn is under way: it carries the first turn's
\* user message and response before the second user message.
C19_Witness ==
    /\ pc = "stream"
    /\ Len(sent) = 4
    /\ sent[2].role = "user" /\ sent[3].role = "assistant"
    /\ sent[4] = UserMessage

\* C20: once readline() has answered with the end of input, the read loop
\* has stopped: it calls readline() no more.
C20_ReadStopsAtEndOfInput == [][eof > 0 => eof' = eof]_vars

(***************************************************************************)
(* Further properties of the decoder (SpecDecode).                         *)
(***************************************************************************)
Unframed(line) ==
    /\ line # << >>
    /\ line # Sentinel
    /\ ~StartsWith(line, DataPrefix)

\* C16: a non-empty line that is neither equal to the sentinel nor starts
\* with the data prefix yields no event and does not end the sequence: the
\* decoder ends at such a line only when it is the last line of the source.
C16_UnframedLineIsIgnored ==
    \A i \in 1..nread :
        Unframed(lines[i]) =>
            /\ \A k \in 1..Len(events) : events[k] # i
            /\ (gen = "done" /\ nread = i) => i = Len(lines)

\* C18: lines are read in source order and never twice, an event comes from
\* the last line read when it is yielded, and nothing is read or yielded
\* unless the consumer asks for the next event.
C18_SinglePassPullDriven ==
    [][/\ nread' >= nread
       /\ events' # events =>
             /\ nread' > nread
             /\ events' = Append(events, nread')
       /\ (gen # "open" \/ gen' = "closed") =>
             /\ nread' = nread
             /\ events' = events]_vars

\* The consumer stopped after two events while a line was still unread.
C18_Witness ==
    /\ gen = "closed"
    /\ events = << 1, 2 >>
    /\ nread = 2
    /\ Len(lines) = 3

====
